---- MODULE Spec2Model ----
(***************************************************************************)
(* SysAdminRAG (src/RAG/rag_system.py): the shard registry, the retrieval  *)
(* merger and the answer assembler, as a state machine.                    *)
(*                                                                         *)
(* A path is a sequence of path components.  The component Root stands for *)
(* the index storage root ".ragatouille/colbert/indexes"; the working      *)
(* directory is fixed, so a relative path and its absolute form are the    *)
(* same sequence.  The index provider (RAGatouille), the compressor        *)
(* pipeline (LangChain) and the completion provider (Ollama) are external: *)
(* what they answer is an input of the operation that calls them.  The     *)
(* indexes on disk do not change while one call runs, so within one call a *)
(* shard's provider gives the same answer to the same query.  search asks  *)
(* each provider for 2 hits; a provider may return any number up to        *)
(* MaxHits.                                                                *)
(*                                                                         *)
(* SmartChunker (src/RAG/chunking.py) is modelled on texts that are        *)
(* sequences of characters, made of at most MaxPieces pieces.              *)
(***************************************************************************)
EXTENDS Integers, Sequences, FiniteSets, TLC

VARIABLES
    fs,               \* the directories that exist on disk
    files,            \* the regular files that exist on disk
    chunker,          \* self.chunker: the fields of the SmartChunker
    index_paths,      \* self.index_paths
    index_path,       \* self.index_path
    index_loaded,     \* self.index_loaded
    shard_models,     \* self.shard_models: sequence of (path, model)
    use_compression,  \* self.use_compression and self.compressor
    ret               \* outcome of the last call, with the inputs it was given

vars == <<fs, files, chunker, index_paths, index_path, index_loaded, shard_models,
          use_compression, ret>>

----------------------------------------------------------------------------
(* Bounds *)

MaxK == 3         \* largest k given to search and ask
MaxHits == 2      \* most hits a shard's provider returns for one query
MaxShards == 2    \* most shard models the loaded-shard list holds
MaxPaths == 2     \* most index paths given to the constructor
MaxPieces == 4    \* most pieces the text of a document is made of
MaxChunks == 2    \* most chunks an index is built from
MaxSentences == 4 \* most sentences of a longer text

Names == {"a", "b"}
Scores == {1, 2}   \* the scores a provider gives
Root == "indexes"
NoPath == <<>>

UserPaths == {<<n>> : n \in Names}
StorePaths == {<<Root, n>> : n \in Names}
SubPaths == {<<Root, "a", m>> : m \in Names}
Dirs == UserPaths \cup StorePaths \cup SubPaths

\* The files that mark a directory as an index (lines 224-226), and the
\* places a disk can hold them in.
SentinelNames == {"index_path.txt", "chunks_metadata.json", "index_name.txt"}
SentinelPaths == {p \o <<s>> : p \in SubPaths, s \in SentinelNames}

\* A directory exists only inside an existing directory.
FsStates == {d \in SUBSET Dirs : \A p \in d : Len(p) = 3 => <<p[1], p[2]>> \in d}

\* The regular files that a disk with the directories d can hold in the
\* index storage: each in an existing directory, none where a directory is.
FileStates(d) ==
    {f \in SUBSET (((StorePaths \cup SubPaths) \ d) \cup SentinelPaths) :
        \A p \in f : /\ Len(p) = 3 => <<p[1], p[2]>> \in d
                     /\ Len(p) = 4 => <<p[1], p[2], p[3]>> \in d}

ListOrders == {<<"a", "b">>, <<"b", "a">>}

----------------------------------------------------------------------------
(* Paths *)

\* os.path.exists: a directory or a regular file
exists(p) == p \in fs \/ p \in files

basename(p) == p[Len(p)]

join(a, b) == a \o b

\* os.listdir: the entries of dir, in the order the file system lists names.
listdir(dir, ord) == SelectSeq(ord, LAMBDA n : exists(join(dir, <<n>>)))

isdir(p) == p \in fs

\* A resolution that prefers the given path to the storage location.
get_index_path_given_first(base_index_path) ==
    LET index_name == basename(base_index_path)
        store_path == <<Root, index_name>>
    IN  IF exists(base_index_path) THEN base_index_path
        ELSE IF exists(store_path) THEN store_path
        ELSE NoPath

\* Lines 185-200
get_index_path(base_index_path) ==
    LET index_name == basename(base_index_path)
        store_path == <<Root, index_name>>
    IN  IF exists(store_path) THEN store_path
        ELSE IF exists(base_index_path) THEN base_index_path
        ELSE NoPath

\* Lines 224-226: the sentinel and metadata files of one entry.
has_index_path(item_path) == exists(join(item_path, <<"index_path.txt">>))
has_metadata(item_path) == exists(join(item_path, <<"chunks_metadata.json">>))
has_index_name(item_path) == exists(join(item_path, <<"index_name.txt">>))

\* Lines 229-231: the entry's path, made absolute and then relative to the
\* working directory again, is the path of the entry itself.
has_ragatouille_index(item_path) == exists(item_path)

\* Line 233
is_index(item_path) ==
    \/ has_index_path(item_path)
    \/ has_metadata(item_path)
    \/ has_index_name(item_path)
    \/ has_ragatouille_index(item_path)

discover_indexes(base_dir, ord) ==
    LET dir == join(<<Root>>, base_dir)
        items == IF exists(dir) THEN listdir(dir, ord) ELSE <<>>
        kept == SelectSeq(items, LAMBDA n :
                    isdir(join(dir, <<n>>)) /\ is_index(join(dir, <<n>>)))
    IN  [i \in 1..Len(kept) |-> join(dir, <<kept[i]>>)]

\* Line 219: os.listdir raises when the base location exists and is not a
\* directory.
discover_raises(base_dir) ==
    LET dir == join(<<Root>>, base_dir) IN exists(dir) /\ ~isdir(dir)

\* Lines 203-236: what _discover_indexes returns or raises.
discover_outcome(base_dir, ord) ==
    IF discover_raises(base_dir)
    THEN [status |-> "NotADirectoryError", value |-> <<>>]
    ELSE [status |-> "ok", value |-> discover_indexes(base_dir, ord)]

RECURSIVE Flatten(_)
Flatten(ss) == IF ss = <<>> THEN <<>> ELSE Head(ss) \o Flatten(Tail(ss))

----------------------------------------------------------------------------
(* Results of calls *)

\* An index without a chunks_metadata.json.
NoMetadata == [exists |-> FALSE, keys |-> {}]

\* No document: what ret holds for doc outside chunk_document.
NoDoc == [has_text |-> FALSE, text |-> <<>>, has_id |-> FALSE]

RetInit ==
    [op |-> "init", status |-> "ok", k |-> 0, value |-> <<>>,
     answer |-> "", sources |-> <<>>, context |-> <<>>, calls |-> <<>>,
     nsearch |-> 0, first |-> <<>>, compressed |-> <<>>,
     comp |-> [mode |-> "off", keep |-> {}], probe |-> "none", gen |-> "none",
     failed |-> {}, emitted |-> <<>>, outcome |-> <<>>, paths |-> <<>>,
     before |-> <<>>,
     auto |-> FALSE, doc |-> NoDoc, raw |-> <<>>, meta |-> NoMetadata]

----------------------------------------------------------------------------
(* build_index *)

BuildOutcomes == {"ok", "raises_before_index", "raises_after_index"}

\* outcome: whether chunking, the pretrained model and the provider's index()
\* succeed ("raises_before_index" when one of them raises, before any
\* directory is made), and whether the metadata file is then written
\* ("raises_after_index" when it is not).
build_index(force_rebuild, outcome) ==
    LET index_name == index_path
        index_path_in_ragatouille == join(<<Root>>, index_name)
    IN  /\ UNCHANGED <<files, chunker, index_paths, index_path, shard_models, use_compression>>
        /\ IF exists(index_path) /\ ~force_rebuild
           THEN /\ UNCHANGED <<fs, index_loaded>>
                /\ ret' = [RetInit EXCEPT !.op = "build_index", !.status = "skipped"]
           ELSE CASE outcome = "raises_before_index" ->
                       /\ UNCHANGED <<fs, index_loaded>>
                       /\ ret' = [RetInit EXCEPT !.op = "build_index",
                                                 !.status = "BuildError"]
                  [] outcome = "raises_after_index" ->
                       /\ fs' = fs \cup {index_path_in_ragatouille}
                       /\ UNCHANGED index_loaded
                       /\ ret' = [RetInit EXCEPT !.op = "build_index",
                                                 !.status = "BuildError"]
                  [] OTHER ->
                       /\ fs' = fs \cup {index_path_in_ragatouille}
                       /\ index_loaded' = TRUE
                       /\ ret' = [RetInit EXCEPT !.op = "build_index"]

----------------------------------------------------------------------------
(* load_index *)

\* What happens to one candidate path: it does not resolve; from_index
\* raises; the warm-up query raises; both go through; or the loop has ended
\* before it.
LoadOutcomes == {"ok", "warmup_raises", "from_index_raises"}

\* One shard model: the resolved path and the handle made from it.  warm
\* records whether the handle's warm-up query went through.
ShardModel(path, outcome) == [index_path |-> path, warm |-> (outcome = "ok")]

\* The loop with a shard whose warm-up query raised left out of the models.
RECURSIVE load_shards_dropping_cold(_, _, _, _, _)
load_shards_dropping_cold(paths, i, models, existing, outcome) ==
    IF i > Len(paths)
    THEN [raised |-> FALSE, models |-> models, existing |-> existing]
    ELSE LET path == get_index_path(paths[i]) IN
         IF path = NoPath
         THEN load_shards_dropping_cold(paths, i + 1, models, existing, outcome)
         ELSE IF outcome[i] = "from_index_raises"
         THEN [raised |-> TRUE, models |-> models,
               existing |-> Append(existing, <<paths[i], path>>)]
         ELSE load_shards_dropping_cold(paths, i + 1,
                  IF outcome[i] = "ok"
                  THEN Append(models, ShardModel(path, outcome[i])) ELSE models,
                  Append(existing, <<paths[i], path>>), outcome)

\* Lines 261-274: the loop over the candidate paths, from candidate i on.
\* from_index is called outside the try block, so what it raises leaves the
\* loop; the warm-up query is inside it.
RECURSIVE load_shards(_, _, _, _, _)
load_shards(paths, i, models, existing, outcome) ==
    IF i > Len(paths)
    THEN [raised |-> FALSE, models |-> models, existing |-> existing]
    ELSE LET path == get_index_path(paths[i]) IN
         IF path = NoPath
         THEN load_shards(paths, i + 1, models, existing, outcome)
         ELSE IF outcome[i] = "from_index_raises"
         THEN [raised |-> TRUE, models |-> models,
               existing |-> Append(existing, <<paths[i], path>>)]
         ELSE load_shards(paths, i + 1,
                          Append(models, ShardModel(path, outcome[i])),
                          Append(existing, <<paths[i], path>>), outcome)

\* Lines 247-259: the candidate paths after auto-discovery.
candidates(auto_discover, ord) ==
    LET discovered_indexes ==
            Flatten([i \in 1..Len(index_paths) |-> discover_indexes(index_paths[i], ord)])
    IN  IF auto_discover /\ discovered_indexes # <<>>
        THEN discovered_indexes
        ELSE index_paths

\* What can happen to the candidates from candidate i on, one outcome per
\* candidate, when the loop reaches candidate i.
RECURSIVE load_outcomes(_, _)
load_outcomes(paths, i) ==
    IF i > Len(paths) THEN {<<>>}
    ELSE IF get_index_path(paths[i]) = NoPath
    THEN {<<"unresolved">> \o t : t \in load_outcomes(paths, i + 1)}
    ELSE {<<o>> \o t : o \in {"ok", "warmup_raises"}, t \in load_outcomes(paths, i + 1)}
         \cup {<<"from_index_raises">> \o [j \in 1..(Len(paths) - i) |-> "not_reached"]}

load_index(auto_discover, ord, outcome) ==
    LET paths == candidates(auto_discover, ord)
        run == load_shards(paths, 1, shard_models, <<>>, outcome)
        done == [RetInit EXCEPT !.op = "load_index", !.auto = auto_discover,
                                !.outcome = outcome, !.paths = paths,
                                !.before = shard_models]
    IN  IF auto_discover /\ \E i \in 1..Len(index_paths) : discover_raises(index_paths[i])
        THEN /\ ret' = [done EXCEPT !.status = "NotADirectoryError",
                                    !.outcome = <<>>, !.paths = index_paths]
             /\ UNCHANGED <<fs, files, chunker, index_paths, index_path, index_loaded,
                            shard_models, use_compression>>
        ELSE /\ outcome \in load_outcomes(paths, 1)
             /\ Len(run.models) <= MaxShards
             /\ index_paths' = paths
             /\ shard_models' = run.models
             /\ UNCHANGED <<fs, files, chunker, index_path, use_compression>>
             /\ IF run.raised
                THEN /\ UNCHANGED index_loaded
                     /\ ret' = [done EXCEPT !.status = "ProviderError"]
                ELSE IF run.existing = <<>>
                THEN /\ UNCHANGED index_loaded
                     /\ ret' = [done EXCEPT !.status = "FileNotFoundError"]
                ELSE /\ index_loaded' = TRUE
                     /\ ret' = done

----------------------------------------------------------------------------
(* search *)

\* What a provider's search returns for one hit: a bare text (kind "str",
\* no score of its own) or a structured hit with a score.
RawHits == {[kind |-> "str", score |-> 0]}
           \cup {[kind |-> "dict", score |-> sc] : sc \in Scores}

\* The lists of hits a provider returns: up to n hits, all bare texts or all
\* structured.
HitLists(n) ==
    UNION {{h \in [1..m -> RawHits] : \A i, j \in 1..m : h[i].kind = h[j].kind} : m \in 0..n}

\* What one shard answers to one query: its hits, or a failure of the
\* provider's search or of reading the shard's chunks_metadata.json.
ResponsesUpTo(n) ==
    {[fail |-> "none", hits |-> h] : h \in HitLists(n)}
    \cup {[fail |-> f, hits |-> <<>>] : f \in {"search_raises", "metadata_unreadable"}}

Responses == ResponsesUpTo(MaxHits)

\* The answers with at most one hit.
BriefResponses == ResponsesUpTo(1)

\* Lines 164-179: the entry that build_index writes to the index's
\* chunks_metadata.json under the key str(idx), for the chunk at position
\* idx of the indexed collection.
chunks_metadata(path, idx) ==
    [chunk_id |-> <<"chunk_id", path, idx>>,
     title |-> <<"title", path, idx>>,
     source_url |-> <<"url", path, idx>>,
     metadata |-> <<"meta", path, idx>>,
     text |-> <<"text", path, idx>>]

\* The empty string and the empty dictionary.
Empty == <<>>

\* str(idx)
str(idx) == <<"str", idx>>

\* The keys of a chunks_metadata.json that has an entry for every index a
\* hit can be looked up with.
AllKeys == 0..MaxHits

\* Lines 307-314: the index under which the metadata of a hit is looked
\* up: the position of the hit in the result list for a bare text, its rank
\* for a structured hit that has one.
result_idx(idx, result) ==
    IF result.kind = "str" THEN idx
    ELSE IF result.has_rank THEN result.rank ELSE idx

\* A fallback chunk id that is the empty string.
fallback_chunk_id_empty(idx, result) == Empty

\* Line 319: the second argument of metadata.get('chunk_id', result_idx)
fallback_chunk_id(idx, result) == str(result_idx(idx, result))

\* Lines 316-326: the hit formatted from the result at position idx
\* (0-based) of the provider's list; keys are the keys of the index's
\* chunks_metadata.json, none when the file does not exist (297-303).
format_result(path, idx, result, keys) ==
    LET found == result_idx(idx, result) \in keys
        metadata == chunks_metadata(path, result_idx(idx, result))
    IN  [chunk_id |-> IF found THEN metadata.chunk_id ELSE fallback_chunk_id(idx, result),
         text |-> IF result.text # Empty THEN result.text
                  ELSE IF found THEN metadata.text ELSE Empty,
         score |-> IF result.kind = "str" THEN 1 ELSE result.score,
         title |-> IF found THEN metadata.title ELSE Empty,
         source_url |-> IF found THEN metadata.source_url ELSE Empty,
         metadata |-> IF found THEN metadata.metadata ELSE Empty,
         index_path |-> path]

\* Lines 305-328
format_results(path, results, keys) ==
    [i \in 1..Len(results) |-> format_result(path, i - 1, results[i], keys)]

\* The list the provider of shard s returns for a response: hit i carries
\* a text of its own, <<s, i>>, and, when structured, the rank i.
provider_results(s, response) ==
    [i \in 1..Len(response.hits) |->
        [kind |-> response.hits[i].kind, score |-> response.hits[i].score,
         text |-> <<s, i>>, has_rank |-> response.hits[i].kind = "dict", rank |-> i]]

\* Lines 297-303: the keys of the dictionary read from chunks_metadata.json,
\* the empty dictionary when the file does not exist.
loaded_keys(meta) == IF meta.exists THEN meta.keys ELSE {}

\* The chunks_metadata.json that build_index writes for a collection of
\* MaxChunks chunks (lines 166-179).
BuiltMetadata == [exists |-> TRUE, keys |-> 0..(MaxChunks - 1)]

\* The states of an index's chunks_metadata.json: no file, or a file with
\* entries under some of the keys.
MetadataFiles == {NoMetadata} \cup {[exists |-> TRUE, keys |-> ks] : ks \in SUBSET AllKeys}

\* What the provider of the index at path returns as hit i of a list: the
\* text of one of the indexed chunks, bare or with a score and, possibly,
\* with its rank in the list.
ShardHits(path, i) ==
    {[kind |-> "str", score |-> 0, text |-> chunks_metadata(path, p).text,
      has_rank |-> FALSE, rank |-> i] : p \in 0..(MaxChunks - 1)}
    \cup {[kind |-> "dict", score |-> sc, text |-> chunks_metadata(path, p).text,
           has_rank |-> hr, rank |-> i] :
              p \in 0..(MaxChunks - 1), sc \in Scores, hr \in BOOLEAN}

\* The lists of up to MaxHits hits, all bare texts or all structured.
ShardResults(path) ==
    UNION {{h \in [1..m -> UNION {ShardHits(path, i) : i \in 1..m}] :
               \A i, j \in 1..m : h[i].rank = i /\ h[i].kind = h[j].kind} : m \in 0..MaxHits}

\* _search_single_index, called on the index at path.
search_shard(path, results, meta) ==
    /\ ret' = [RetInit EXCEPT !.op = "search_single_index", !.paths = <<path>>,
                              !.raw = results, !.meta = meta,
                              !.value = format_results(path, results, loaded_keys(meta))]
    /\ UNCHANGED <<fs, files, chunker, index_paths, index_path, index_loaded,
                   shard_models, use_compression>>

\* _search_single_index for shard s (its position in shard_models), whose
\* chunks_metadata.json has an entry for every key.
search_single_index(s, response) ==
    format_results(shard_models[s].index_path, provider_results(s, response), AllKeys)

\* A sort that puts h before the hits of its own score (as sorting ascending
\* and reversing does).
RECURSIVE insert_before_equal(_, _)
insert_before_equal(sorted, h) ==
    IF sorted = <<>> THEN <<h>>
    ELSE IF Head(sorted).score > h.score
         THEN <<Head(sorted)>> \o insert_before_equal(Tail(sorted), h)
         ELSE <<h>> \o sorted

\* list.sort(key=score, reverse=True): stable, descending.  h goes after
\* every hit whose score is at least its own.
RECURSIVE insert_by_score(_, _)
insert_by_score(sorted, h) ==
    IF sorted = <<>> THEN <<h>>
    ELSE IF Head(sorted).score >= h.score
         THEN <<Head(sorted)>> \o insert_by_score(Tail(sorted), h)
         ELSE <<h>> \o sorted

RECURSIVE sort_by_score(_)
sort_by_score(all_results) ==
    IF all_results = <<>> THEN <<>>
    ELSE insert_by_score(sort_by_score(SubSeq(all_results, 1, Len(all_results) - 1)),
                         all_results[Len(all_results)])

\* all_results[:k + 1]
top_k_plus_one(all_results, k) ==
    SubSeq(all_results, 1, IF k + 1 < Len(all_results) THEN k + 1 ELSE Len(all_results))

\* all_results[:k], k >= 0
top_k(all_results, k) ==
    SubSeq(all_results, 1, IF k < Len(all_results) THEN k ELSE Len(all_results))

\* Lines 345-349: the hits of every shard, in shard order.
all_shard_results(resp) ==
    Flatten([s \in 1..Len(shard_models) |-> search_single_index(s, resp[s])])

\* search(query, k): what the call raises or returns when shard s answers
\* resp[s].  A raising shard is not caught, so it ends the call.
search_outcome(k, resp) ==
    IF ~index_loaded
    THEN [status |-> "RuntimeError", value |-> <<>>]
    ELSE IF \E s \in 1..Len(shard_models) : resp[s].fail # "none"
    THEN [status |-> "ProviderError", value |-> <<>>]
    ELSE LET all_results == all_shard_results(resp) IN
         IF all_results = <<>>
         THEN [status |-> "ok", value |-> <<>>]
         ELSE [status |-> "ok", value |-> top_k(sort_by_score(all_results), k)]

\* What the call was given, kept with its outcome: the shards whose query
\* failed and the hits the other shards emitted, in shard order.
failed_shards(resp) == {s \in 1..Len(shard_models) : resp[s].fail # "none"}

emitted_hits(resp) ==
    Flatten([s \in 1..Len(shard_models) |->
                IF resp[s].fail = "none" THEN search_single_index(s, resp[s]) ELSE <<>>])

\* A search that forgets the shards whose query failed.
search_dropping_failed(k, resp) ==
    LET out == search_outcome(k, resp) IN
    /\ Len(resp) = Len(shard_models)
    /\ ret' = [RetInit EXCEPT !.op = "search", !.status = out.status, !.k = k,
                              !.value = out.value, !.nsearch = 1,
                              !.failed = failed_shards(resp),
                              !.emitted = emitted_hits(resp)]
    /\ shard_models' = IF failed_shards(resp) = {} THEN shard_models ELSE <<>>
    /\ UNCHANGED <<fs, files, chunker, index_paths, index_path, index_loaded,
                 use_compression>>

search(k, resp) ==
    LET out == search_outcome(k, resp) IN
    /\ Len(resp) = Len(shard_models)
    /\ ret' = [RetInit EXCEPT !.op = "search", !.status = out.status, !.k = k,
                              !.value = out.value, !.nsearch = 1,
                              !.failed = failed_shards(resp),
                              !.emitted = emitted_hits(resp)]
    /\ UNCHANGED <<fs, files, chunker, index_paths, index_path, index_loaded, shard_models,
                 use_compression>>

----------------------------------------------------------------------------
(* ask *)

NoInformation == "Sorry, no relevant information found to answer your question."
ErrorGenerating == "Error generating answer"
FailedToGenerate == "Sorry, failed to generate answer."
Generated == "generated"

\* The liveness probe: status 200, another status, or no connection.
ProbeOutcomes == {"200", "not_200", "unreachable"}

\* The generation request: a response with the text, a response without the
\* 'response' field, an error status, a body that is not JSON, or no
\* connection.
GenOutcomes == {"ok", "no_response_field", "http_error", "malformed_json", "unreachable"}

\* What the compressor pipeline does with n documents: it raises (or was
\* never built), or it keeps the documents at the positions of keep.
CompOutcomes(n) == {[mode |-> "raises", keep |-> {}]}
                   \cup {[mode |-> "filter", keep |-> kp] : kp \in SUBSET (1..n)}

\* document_compressor.py lines 119-130: a document as rebuilt from the
\* pipeline's output; the index_path key is not carried over.
converted(document) ==
    [chunk_id |-> document.chunk_id, text |-> document.text, score |-> document.score,
     title |-> document.title, source_url |-> document.source_url,
     metadata |-> document.metadata, index_path |-> NoPath]

\* DocumentCompressor.compress_documents
compress_documents(documents, comp) ==
    IF comp.mode = "raises"
    THEN documents
    ELSE LET kept == SelectSeq([i \in 1..Len(documents) |-> i], LAMBDA i : i \in comp.keep)
         IN  [j \in 1..Len(kept) |-> converted(documents[kept[j]])]

check_ollama_connection(probe) == probe = "200"

\* A generation whose failures are reported as a generated answer.
generate_hiding_errors(gen) ==
    CASE gen = "no_response_field" -> FailedToGenerate
      [] OTHER -> Generated

\* _generate_with_ollama, after a successful probe
generate_with_ollama(gen) ==
    CASE gen = "ok" -> Generated
      [] gen = "no_response_field" -> FailedToGenerate
      [] OTHER -> ErrorGenerating

\* Compression without the fallback: an empty compressed list is kept.
surviving_without_fallback(first, k, resp, comp) ==
    IF comp.mode = "off"
    THEN [results |-> first, nsearch |-> 1, compressed |-> first]
    ELSE [results |-> compress_documents(first, comp), nsearch |-> 1,
          compressed |-> compress_documents(first, comp)]

\* Lines 424-438: the hits that survive compression.  The second search runs
\* inside the try block: what it raises is caught and the compressed list
\* stays.
surviving(first, k, resp, comp) ==
    IF comp.mode = "off"
    THEN [results |-> first, nsearch |-> 1, compressed |-> first]
    ELSE LET compressed == compress_documents(first, comp) IN
         IF Len(compressed) = 0 /\ Len(first) > 0
         THEN LET again == search_outcome(k, resp) IN
              [results |-> IF again.status = "ok" THEN again.value ELSE compressed,
               nsearch |-> 2, compressed |-> compressed]
         ELSE [results |-> compressed, nsearch |-> 1, compressed |-> compressed]

\* An early return that is never taken.
no_results_ignored(search_results) == FALSE

\* Line 417: not search_results
no_results(search_results) == search_results = <<>>

\* Sources that all carry the title and URL of the best hit.
form_sources_of_best(search_results) ==
    [i \in 1..Len(search_results) |->
        [title |-> search_results[1].title,
         url |-> search_results[1].source_url,
         relevance_score |-> search_results[i].score]]

\* Lines 450-458
form_sources(search_results) ==
    [i \in 1..Len(search_results) |->
        [title |-> search_results[i].title,
         url |-> search_results[i].source_url,
         relevance_score |-> search_results[i].score]]

context_parts(search_results) ==
    [i \in 1..Len(search_results) |-> search_results[i].text]

ask(k, resp, comp, probe, gen) ==
    LET first == search_outcome(k, resp)
        sv == surviving(first.value, k, resp, comp)
        called == [RetInit EXCEPT !.op = "ask", !.k = k,
                                  !.first = first.value, !.nsearch = 1,
                                  !.failed = failed_shards(resp),
                                  !.emitted = emitted_hits(resp)]
    IN  /\ Len(resp) = Len(shard_models)
        /\ UNCHANGED <<fs, files, chunker, index_paths, index_path, index_loaded, shard_models,
                 use_compression>>
        /\ IF first.status # "ok"
           THEN /\ comp.mode = "off" /\ probe = "none" /\ gen = "none"
                /\ ret' = [called EXCEPT !.status = first.status]
           ELSE IF no_results(first.value)
           THEN /\ comp.mode = "off" /\ probe = "none" /\ gen = "none"
                /\ ret' = [called EXCEPT !.answer = NoInformation]
           ELSE /\ (comp.mode = "off") <=> ~use_compression
                /\ comp \in CompOutcomes(Len(first.value)) \cup {RetInit.comp}
                /\ probe \in ProbeOutcomes
                /\ IF check_ollama_connection(probe)
                   THEN /\ gen \in GenOutcomes
                        /\ ret' = [called EXCEPT
                                      !.comp = comp, !.probe = probe, !.gen = gen,
                                      !.nsearch = sv.nsearch,
                                      !.compressed = sv.compressed,
                                      !.context = context_parts(sv.results),
                                      !.calls = <<"probe", "generate">>,
                                      !.answer = generate_with_ollama(gen),
                                      !.sources = form_sources(sv.results),
                                      !.value = sv.results]
                   ELSE /\ gen = "none"
                        /\ ret' = [called EXCEPT
                                      !.comp = comp, !.probe = probe,
                                      !.nsearch = sv.nsearch,
                                      !.compressed = sv.compressed,
                                      !.context = context_parts(sv.results),
                                      !.calls = <<"probe">>,
                                      !.status = "ConnectionError"]

----------------------------------------------------------------------------
(* SmartChunker (src/RAG/chunking.py): texts *)

\* A text is a sequence of characters.  "a" stands for the lowercase
\* letters, "A" for the uppercase ones, "." for the sentence terminators.
Whitespace == {" ", "\n"}
Terminators == {"."}
Uppercase == {"A"}

\* The pieces the texts of the documents are made of: a short word, a word
\* that is a sentence, a space and a blank line.
Pieces == {<<"a">>, <<"A", "a", "a", ".">>, <<" ">>, <<"\n", "\n">>}

Texts == {Flatten(ps) : ps \in UNION {[1..n -> Pieces] : n \in 0..MaxPieces}}

\* Longer texts: up to MaxSentences sentences, a short and a long one,
\* with a space or a blank line between two of them.
Sentences == {<<"A", ".">>, <<"A", "a", "a", ".">>}
Separators == {<<" ">>, <<"\n", "\n">>}

RECURSIVE SentenceTexts(_)
SentenceTexts(n) ==
    IF n = 1 THEN Sentences
    ELSE {t \o sep \o u : t \in SentenceTexts(n - 1), sep \in Separators, u \in Sentences}

LongTexts == UNION {SentenceTexts(n) : n \in 1..MaxSentences}

\* str.strip
RECURSIVE lstrip(_)
lstrip(text) ==
    IF text # <<>> /\ Head(text) \in Whitespace THEN lstrip(Tail(text)) ELSE text

RECURSIVE rstrip(_)
rstrip(text) ==
    IF text # <<>> /\ text[Len(text)] \in Whitespace
    THEN rstrip(SubSeq(text, 1, Len(text) - 1)) ELSE text

strip(text) == rstrip(lstrip(text))

\* The list comprehensions of lines 54 and 62: strip every part, keep the
\* non-empty ones.
stripped_parts(parts) ==
    SelectSeq([i \in 1..Len(parts) |-> strip(parts[i])], LAMBDA part : part # <<>>)

\* The end of the longest match of \n\s*\n that starts at position i, or 0.
blank_line_end(text, i) ==
    LET ends == {j \in (i + 1)..Len(text) :
                    /\ text[j] = "\n"
                    /\ \A m \in (i + 1)..(j - 1) : text[m] \in Whitespace}
    IN  IF text[i] = "\n" /\ ends # {}
        THEN CHOOSE j \in ends : \A m \in ends : m <= j
        ELSE 0

\* re.split(r'\n\s*\n', text), from position i on; the current part started
\* at start.
RECURSIVE split_blank_lines(_, _, _)
split_blank_lines(text, start, i) ==
    IF i > Len(text) THEN <<SubSeq(text, start, Len(text))>>
    ELSE IF blank_line_end(text, i) # 0
         THEN <<SubSeq(text, start, i - 1)>>
              \o split_blank_lines(text, blank_line_end(text, i) + 1,
                                   blank_line_end(text, i) + 1)
         ELSE split_blank_lines(text, start, i + 1)

\* Lines 49-55
split_into_paragraphs(text) == stripped_parts(split_blank_lines(text, 1, 1))

\* The end of the match of (?<=[.!?])\s+(?=[A-Z]) that starts at position
\* i, or 0: the white space after a terminator, when an uppercase letter
\* follows it.
sentence_gap_end(text, i) ==
    LET run == {j \in i..Len(text) : \A m \in i..j : text[m] \in Whitespace}
        last == CHOOSE j \in run : \A m \in run : m <= j
    IN  IF i > 1 /\ text[i - 1] \in Terminators /\ run # {}
           /\ last < Len(text) /\ text[last + 1] \in Uppercase
        THEN last
        ELSE 0

RECURSIVE split_sentence_gaps(_, _, _)
split_sentence_gaps(text, start, i) ==
    IF i > Len(text) THEN <<SubSeq(text, start, Len(text))>>
    ELSE IF sentence_gap_end(text, i) # 0
         THEN <<SubSeq(text, start, i - 1)>>
              \o split_sentence_gaps(text, sentence_gap_end(text, i) + 1,
                                     sentence_gap_end(text, i) + 1)
         ELSE split_sentence_gaps(text, start, i + 1)

\* Lines 57-63
split_into_sentences(text) == stripped_parts(split_sentence_gaps(text, 1, 1))

\* str.split(): the maximal runs of characters that are not white space.
RECURSIVE split(_)
split(text) ==
    LET rest == lstrip(text)
        stops == {j \in 1..Len(rest) : rest[j] \in Whitespace}
        stop == IF stops = {} THEN Len(rest) + 1
                ELSE CHOOSE j \in stops : \A m \in stops : j <= m
    IN  IF rest = <<>> THEN <<>>
        ELSE <<SubSeq(rest, 1, stop - 1)>> \o split(SubSeq(rest, stop, Len(rest)))

\* ' '.join(parts)
RECURSIVE space_join(_)
space_join(parts) ==
    IF parts = <<>> THEN <<>>
    ELSE IF Len(parts) = 1 THEN parts[1]
    ELSE parts[1] \o <<" ">> \o space_join(Tail(parts))

\* Lines 65-67
estimate_tokens(text) == Len(text) \div 4

----------------------------------------------------------------------------
(* SmartChunker: packing *)

\* SmartChunker.__init__
SmartChunker(chunk_size, chunk_overlap, min_chunk_size, respect_sentences, respect_paragraphs) ==
    [chunk_size |-> chunk_size, chunk_overlap |-> chunk_overlap,
     min_chunk_size |-> min_chunk_size, respect_sentences |-> respect_sentences,
     respect_paragraphs |-> respect_paragraphs]

\* rag_system.py lines 65-68, with the defaults of lines 38-39 and of
\* SmartChunker.__init__
OwnChunker == SmartChunker(500, 100, 150, TRUE, TRUE)

\* The units a paragraph is packed from: its sentences (line 76) or its
\* words (line 100).
units_of(paragraph) ==
    IF chunker.respect_sentences THEN split_into_sentences(paragraph) ELSE split(paragraph)

\* The size counted for one unit: line 80 for a sentence, line 105 for a
\* word.
unit_size(unit) ==
    IF chunker.respect_sentences THEN estimate_tokens(unit)
    ELSE estimate_tokens(unit \o <<" ">>)

\* Lines 89 and 113: the size of a buffer, summed over its units.  A buffer
\* is the sequence of the positions of its units in the paragraph.
RECURSIVE sum_sizes(_, _)
sum_sizes(units, buffer) ==
    IF buffer = <<>> THEN 0
    ELSE unit_size(units[Head(buffer)]) + sum_sizes(units, Tail(buffer))

\* A flush only when the budget is exceeded by more than one token.
overflows_late(current_size, size) == current_size + size > chunker.chunk_size + 1

\* Lines 82 and 107, first conjunct
overflows(current_size, size) == current_size + size > chunker.chunk_size

\* An overlap of chunk_overlap units, for sentences as for words.
overlap_by_count(current_chunk) ==
    IF Len(current_chunk) >= chunker.chunk_overlap
    THEN SubSeq(current_chunk, Len(current_chunk) - chunker.chunk_overlap + 1,
                Len(current_chunk))
    ELSE current_chunk

\* An overlap taken from the front of the flushed buffer.
overlap_from_front(current_chunk) ==
    LET n == IF chunker.respect_sentences THEN 2 ELSE chunker.chunk_overlap
    IN  IF Len(current_chunk) >= n THEN SubSeq(current_chunk, 1, n) ELSE current_chunk

\* Lines 87 and 111: the units carried over from the flushed buffer, the
\* last two sentences or the last chunk_overlap words.
overlap(current_chunk) ==
    LET n == IF chunker.respect_sentences THEN 2 ELSE chunker.chunk_overlap
    IN  IF Len(current_chunk) >= n
        THEN SubSeq(current_chunk, Len(current_chunk) - n + 1, Len(current_chunk))
        ELSE current_chunk

\* The loop without the final flush of lines 97-98 and 121-122.
RECURSIVE pack_without_final_flush(_, _, _, _, _)
pack_without_final_flush(units, i, current_chunk, current_size, chunks) ==
    IF i > Len(units)
    THEN chunks
    ELSE IF overflows(current_size, unit_size(units[i])) /\ current_chunk # <<>>
         THEN IF chunker.chunk_overlap > 0
              THEN pack_without_final_flush(units, i + 1, overlap(current_chunk) \o <<i>>,
                        sum_sizes(units, overlap(current_chunk) \o <<i>>),
                        Append(chunks, current_chunk))
              ELSE pack_without_final_flush(units, i + 1, <<i>>, unit_size(units[i]),
                        Append(chunks, current_chunk))
         ELSE pack_without_final_flush(units, i + 1, Append(current_chunk, i),
                   current_size + unit_size(units[i]), chunks)

\* Lines 79-98 and 104-122: the loop over the units from unit i on, and the
\* final flush.
RECURSIVE pack(_, _, _, _, _)
pack(units, i, current_chunk, current_size, chunks) ==
    IF i > Len(units)
    THEN IF current_chunk # <<>> THEN Append(chunks, current_chunk) ELSE chunks
    ELSE IF overflows(current_size, unit_size(units[i])) /\ current_chunk # <<>>
         THEN IF chunker.chunk_overlap > 0
              THEN pack(units, i + 1, overlap(current_chunk) \o <<i>>,
                        sum_sizes(units, overlap(current_chunk) \o <<i>>),
                        Append(chunks, current_chunk))
              ELSE pack(units, i + 1, <<i>>, unit_size(units[i]),
                        Append(chunks, current_chunk))
         ELSE pack(units, i + 1, Append(current_chunk, i),
                   current_size + unit_size(units[i]), chunks)

\* The buffers flushed for a paragraph that is split: each is the sequence
\* of the positions of its units.
packed(paragraph) == pack(units_of(paragraph), 1, <<>>, 0, <<>>)

\* Lines 84, 98, 109 and 122: the text of a flushed buffer.
joined(units, buffer) == space_join([n \in 1..Len(buffer) |-> units[buffer[n]]])

\* Lines 69-124
split_paragraph(paragraph) ==
    IF estimate_tokens(paragraph) <= chunker.chunk_size
    THEN <<paragraph>>
    ELSE [c \in 1..Len(packed(paragraph)) |->
             joined(units_of(paragraph), packed(paragraph)[c])]

----------------------------------------------------------------------------
(* SmartChunker.chunk_document *)

ChunkSizes == {1, 2}
Overlaps == {0, 1, 2}
MinSizes == {0, 1}

\* The chunkers that can be constructed.
Chunkers == {SmartChunker(cs, ov, mn, rs, rp) :
                cs \in ChunkSizes, ov \in Overlaps, mn \in MinSizes,
                rs \in BOOLEAN, rp \in BOOLEAN}

\* The documents: with a text and an id, with a short text and no id, and
\* with no text.
Docs == {[has_text |-> TRUE, text |-> t, has_id |-> TRUE] : t \in Texts \cup LongTexts}
        \cup {[has_text |-> TRUE, text |-> t, has_id |-> FALSE] :
                 t \in {<<>>} \cup Pieces}
        \cup {[has_text |-> FALSE, text |-> <<>>, has_id |-> b] : b \in BOOLEAN}

DocId == "d1"

\* A filter that lets every chunk through.
too_small_never(chunk_text) == FALSE

\* Lines 150 and 174
too_small(chunk_text) == estimate_tokens(chunk_text) < chunker.min_chunk_size

\* A chunk id that counts the paragraphs from one.
chunk_id_from_one(para_idx, chunk_idx) == <<DocId, "chunk", para_idx + 1, chunk_idx>>

\* Line 153: f"{doc['id']}_chunk_{para_idx}_{chunk_idx}"
paragraph_chunk_id(para_idx, chunk_idx) == <<DocId, "chunk", para_idx, chunk_idx>>

\* A chunk_index that counts the dropped chunks too.
chunk_index_of_produced(kept_before, produced_before) == produced_before

\* Line 161: chunk_index=len(chunks)
paragraph_chunk_index(kept_before, produced_before) == kept_before

\* The paragraphs packed as one: a buffer that is not emptied between two
\* paragraphs.
produced_as_one(paragraphs) ==
    LET para_chunks == split_paragraph(space_join(paragraphs)) IN
    [c \in 1..Len(para_chunks) |->
        [para_idx |-> 0, chunk_idx |-> c - 1, text |-> para_chunks[c],
         total_chunks |-> Len(para_chunks)]]

\* Lines 145-148: what the two loops go through in paragraph mode, in
\* order.
produced(paragraphs) ==
    Flatten([p \in 1..Len(paragraphs) |->
        LET para_chunks == split_paragraph(paragraphs[p]) IN
        [c \in 1..Len(para_chunks) |->
            [para_idx |-> p - 1, chunk_idx |-> c - 1, text |-> para_chunks[c],
             total_chunks |-> Len(para_chunks)]]])

\* The positions in a sequence that the filter of lines 150 and 174 keeps.
kept_positions(texts) ==
    SelectSeq([n \in 1..Len(texts) |-> n], LAMBDA n : ~too_small(texts[n]))

\* Lines 142-169
paragraph_chunks(text) ==
    LET all == produced(split_into_paragraphs(text))
        kept == kept_positions([n \in 1..Len(all) |-> all[n].text])
    IN  [n \in 1..Len(kept) |->
            [text |-> all[kept[n]].text,
             chunk_id |-> paragraph_chunk_id(all[kept[n]].para_idx, all[kept[n]].chunk_idx),
             source_id |-> DocId,
             chunk_index |-> paragraph_chunk_index(n - 1, kept[n] - 1),
             metadata |-> [paragraph_index |-> all[kept[n]].para_idx,
                           chunk_in_paragraph |-> all[kept[n]].chunk_idx,
                           total_chunks |-> all[kept[n]].total_chunks]]]

\* Lines 170-188
text_chunks(text) ==
    LET all_chunks == split_paragraph(text)
        kept == kept_positions(all_chunks)
    IN  [n \in 1..Len(kept) |->
            [text |-> all_chunks[kept[n]],
             chunk_id |-> <<DocId, "chunk", kept[n] - 1>>,
             source_id |-> DocId,
             chunk_index |-> kept[n] - 1,
             metadata |-> <<>>]]

\* A chunk_document that reads the id before it looks at the text.
chunk_document_outcome_id_first(document) ==
    IF ~document.has_id THEN [status |-> "KeyError", value |-> <<>>]
    ELSE [status |-> "ok",
          value |-> IF chunker.respect_paragraphs
                    THEN paragraph_chunks(document.text) ELSE text_chunks(document.text)]

\* Lines 126-190: what the call returns or raises.  doc['id'] is read when
\* the first chunk that passes the filter is built.
chunk_document_outcome(document) ==
    LET text == IF document.has_text THEN document.text ELSE <<>>
        chunks == IF chunker.respect_paragraphs
                  THEN paragraph_chunks(text) ELSE text_chunks(text)
    IN  IF text = <<>> THEN [status |-> "ok", value |-> <<>>]
        ELSE IF chunks # <<>> /\ ~document.has_id
        THEN [status |-> "KeyError", value |-> <<>>]
        ELSE [status |-> "ok", value |-> chunks]

\* _get_index_path, called on its own.
resolve(base_index_path) ==
    /\ ret' = [RetInit EXCEPT !.op = "get_index_path", !.paths = <<base_index_path>>,
                              !.value = get_index_path(base_index_path)]
    /\ UNCHANGED <<fs, files, chunker, index_paths, index_path, index_loaded,
                   shard_models, use_compression>>

\* _discover_indexes, called on its own.
discover(base_dir, ord) ==
    /\ ret' = [RetInit EXCEPT !.op = "discover_indexes", !.paths = <<base_dir>>,
                              !.status = discover_outcome(base_dir, ord).status,
                              !.value = discover_outcome(base_dir, ord).value]
    /\ UNCHANGED <<fs, files, chunker, index_paths, index_path, index_loaded,
                   shard_models, use_compression>>

chunk_document(document) ==
    /\ ret' = [RetInit EXCEPT !.op = "chunk_document", !.doc = document,
                              !.status = chunk_document_outcome(document).status,
                              !.value = chunk_document_outcome(document).value]
    /\ UNCHANGED <<fs, files, chunker, index_paths, index_path, index_loaded,
                   shard_models, use_compression>>

----------------------------------------------------------------------------
(* The system *)

PathLists == UNION {[1..n -> UserPaths] : n \in 1..MaxPaths}

\* The caller is done with the outcome of the last call (main.py prints it)
\* and is ready for the next one.
Idle == ret.op = "init"

Returned ==
    /\ ~Idle
    /\ ret' = RetInit
    /\ UNCHANGED <<fs, files, chunker, index_paths, index_path, index_loaded, shard_models,
                 use_compression>>

BuildIndex == Idle /\ \E force_rebuild \in BOOLEAN, outcome \in BuildOutcomes :
                  build_index(force_rebuild, outcome)

LoadIndex == Idle /\ \E auto_discover \in BOOLEAN, ord \in ListOrders :
                 \E outcome \in load_outcomes(candidates(auto_discover, ord), 1) :
                     load_index(auto_discover, ord, outcome)

\* load_index() as main.py calls it when --indexes is given, every handle
\* and warm-up going through.
LoadGiven == Idle /\ \E outcome \in load_outcomes(index_paths, 1) :
                 /\ \A i \in 1..Len(outcome) : outcome[i] \in {"ok", "unresolved"}
                 /\ load_index(FALSE, <<"a", "b">>, outcome)

Search == Idle /\ \E k \in 0..MaxK, resp \in [1..Len(shard_models) -> Responses] :
              search(k, resp)

\* A query to which every shard answers with no hit or with one bare text.
QuietResponses == {[fail |-> "none", hits |-> <<>>],
                   [fail |-> "none", hits |-> <<[kind |-> "str", score |-> 0]>>]}

SearchQuiet == Idle /\ \E resp \in [1..Len(shard_models) -> QuietResponses] :
                   search(MaxK, resp)

Ask == Idle /\ \E k \in 0..MaxK, resp \in [1..Len(shard_models) -> BriefResponses] :
           LET first == search_outcome(k, resp)
               found == first.status = "ok" /\ ~no_results(first.value)
           IN  \E comp \in IF found /\ use_compression
                           THEN CompOutcomes(Len(first.value)) ELSE {RetInit.comp},
                  probe \in IF found THEN ProbeOutcomes ELSE {"none"} :
                   \E gen \in IF probe = "200" THEN GenOutcomes ELSE {"none"} :
                       ask(k, resp, comp, probe, gen)

\* The registry: every state of the disk, building and loading.
Init ==
    /\ fs \in FsStates
    /\ files = {}
    /\ chunker = OwnChunker
    /\ index_paths \in PathLists
    /\ index_path = index_paths[1]
    /\ index_loaded = FALSE
    /\ shard_models = <<>>
    /\ use_compression = FALSE
    /\ ret = RetInit

Next == BuildIndex \/ LoadIndex \/ SearchQuiet \/ Returned

Spec == Init /\ [][Next]_vars

\* Querying: a disk on which "a" resolves to its storage location and "b"
\* to itself, the given shards loaded, and the answers of the providers.
DiskQuery == {<<Root, "a">>, <<"a">>, <<"b">>}

InitSearch ==
    /\ fs = DiskQuery
    /\ files = {}
    /\ chunker = OwnChunker
    /\ index_paths \in PathLists
    /\ index_path = index_paths[1]
    /\ index_loaded = FALSE
    /\ shard_models = <<>>
    /\ use_compression = FALSE
    /\ ret = RetInit

NextSearch == LoadGiven \/ Search \/ Returned

SpecSearch == InitSearch /\ [][NextSearch]_vars

InitAsk ==
    /\ fs = DiskQuery
    /\ files = {}
    /\ chunker = OwnChunker
    /\ index_paths \in PathLists
    /\ index_path = index_paths[1]
    /\ index_loaded = FALSE
    /\ shard_models = <<>>
    /\ use_compression \in BOOLEAN
    /\ ret = RetInit

NextAsk == LoadGiven \/ Ask \/ Returned

SpecAsk == InitAsk /\ [][NextAsk]_vars

\* Querying both ways: search and ask on the loaded shards.
NextQuery == LoadGiven \/ Search \/ Ask \/ Returned

SpecQuery == InitAsk /\ [][NextQuery]_vars

Discover == Idle /\ \E base_dir \in UserPaths, ord \in ListOrders : discover(base_dir, ord)

\* The paths load_index resolves: those given to the constructor and those
\* auto-discovery finds.
GetIndexPath == Idle /\ \E base_index_path \in UserPaths \cup SubPaths : resolve(base_index_path)

\* load_index(auto_discover=True) as main.py calls it when --indexes is not
\* given, every handle and warm-up going through.
LoadDiscovered == Idle /\ \E ord \in ListOrders :
                      \E outcome \in load_outcomes(candidates(TRUE, ord), 1) :
                          /\ \A i \in 1..Len(outcome) : outcome[i] \in {"ok", "unresolved"}
                          /\ load_index(TRUE, ord, outcome)

\* Discovery: every state of the disk, regular files in the index storage
\* included.
InitDiscover ==
    /\ fs \in FsStates
    /\ files \in FileStates(fs)
    /\ chunker = OwnChunker
    /\ index_paths \in PathLists
    /\ index_path = index_paths[1]
    /\ index_loaded = FALSE
    /\ shard_models = <<>>
    /\ use_compression = FALSE
    /\ ret = RetInit

NextDiscover == Discover \/ GetIndexPath \/ LoadDiscovered \/ Returned

SpecDiscover == InitDiscover /\ [][NextDiscover]_vars

SearchSingleIndex == Idle /\ \E path \in StorePaths :
                         \E results \in ShardResults(path), meta \in MetadataFiles :
                             search_shard(path, results, meta)

\* One shard: the indexes in the storage, what their providers return and
\* what their chunks_metadata.json holds.
InitShard ==
    /\ fs = StorePaths
    /\ files = {}
    /\ chunker = OwnChunker
    /\ index_paths = <<<<"a">>>>
    /\ index_path = index_paths[1]
    /\ index_loaded = FALSE
    /\ shard_models = <<>>
    /\ use_compression = FALSE
    /\ ret = RetInit

NextShard == SearchSingleIndex \/ Returned

SpecShard == InitShard /\ [][NextShard]_vars

ChunkDocument == Idle /\ \E document \in Docs : chunk_document(document)

\* Chunking: every chunker, and the documents it is given.
InitChunk ==
    /\ fs = {}
    /\ files = {}
    /\ chunker \in Chunkers
    /\ index_paths = <<<<"a">>>>
    /\ index_path = index_paths[1]
    /\ index_loaded = FALSE
    /\ shard_models = <<>>
    /\ use_compression = FALSE
    /\ ret = RetInit

NextChunk == ChunkDocument \/ Returned

SpecChunk == InitChunk /\ [][NextChunk]_vars

----------------------------------------------------------------------------
(* Properties of search *)

\* Hit t1 was emitted before hit t2: an earlier shard of shard_models, or
\* the same shard and an earlier place in its provider's list.
EmittedBefore(t1, t2) == t1[1] < t2[1] \/ (t1[1] = t2[1] /\ t1[2] < t2[2])

\* C1: a search that returns, returns at most k hits, whatever the number of
\* shards and whatever each provider answered.
C1_AtMostK ==
    (ret.op = "search" /\ ret.status = "ok") => Len(ret.value) <= ret.k

\* A search over two shards that emitted more than k > 0 hits.
C1_Witness ==
    /\ ret.op = "search" /\ ret.status = "ok"
    /\ Len(shard_models) = 2
    /\ ret.k > 0 /\ Len(ret.emitted) > ret.k
    /\ Len(ret.value) = ret.k

\* C2: the hits search returns are in non-increasing order of score, and
\* hits of equal score are in the order in which they were emitted.
C2_SortedStable ==
    (ret.op = "search" /\ ret.status = "ok") =>
        \A i, j \in 1..Len(ret.value) :
            i < j =>
                \/ ret.value[i].score > ret.value[j].score
                \/ /\ ret.value[i].score = ret.value[j].score
                   /\ EmittedBefore(ret.value[i].text, ret.value[j].text)

\* A result in which a later shard's hit comes first by score, followed by
\* two hits of equal score from different shards.
C2_Witness ==
    /\ ret.op = "search" /\ ret.status = "ok"
    /\ Len(ret.value) = 3
    /\ ret.value[1].text[1] = 2
    /\ ret.value[1].score > ret.value[2].score
    /\ ret.value[2].score = ret.value[3].score
    /\ ret.value[2].text[1] = 1 /\ ret.value[3].text[1] = 2

\* C7: when the query of one shard of several fails, search still returns,
\* with the hits of the other shards merged.
C7_ShardFailureTolerated ==
    (/\ ret.op = "search" /\ index_loaded
     /\ Len(shard_models) >= 2
     /\ Cardinality(ret.failed) = 1)
    => /\ ret.status = "ok"
       /\ ret.value = top_k(sort_by_score(ret.emitted), ret.k)

----------------------------------------------------------------------------
(* Properties of load_index and build_index *)

\* The candidates of the last load_index call that resolve on disk.
ResolvedPositions == {i \in 1..Len(ret.paths) : get_index_path(ret.paths[i]) # NoPath}

\* The shard models the last load_index call added.
Added == SubSeq(shard_models, Len(ret.before) + 1, Len(shard_models))

\* C3: with no shard loaded, search fails with the not-loaded error.
C3_NotLoadedWithoutShards ==
    (ret.op = "search" /\ shard_models = <<>>) => ret.status = "RuntimeError"

\* C4: load_index fails with the no-index-found error exactly when no
\* candidate resolves, and when one resolves it sets index_loaded.
C4_NoIndexFoundIff ==
    ret.op = "load_index" =>
        /\ (ret.status = "FileNotFoundError") <=> (ResolvedPositions = {})
        /\ ResolvedPositions # {} => index_loaded

\* C5: a handle construction that raises does not fail load_index, and the
\* other resolved shards are loaded.
C5_HandleFailureTolerated ==
    (/\ ret.op = "load_index"
     /\ \E i \in 1..Len(ret.outcome) : ret.outcome[i] = "from_index_raises")
    => /\ ret.status = "ok"
       /\ \A j \in ResolvedPositions :
              ret.outcome[j] # "from_index_raises" =>
                  \E n \in 1..Len(Added) :
                      Added[n].index_path = get_index_path(ret.paths[j])

\* C6 as stated: after load_index returns, no shard whose warm-up query
\* raised is in the loaded-shard list.
C6_ColdShardsExcluded ==
    (ret.op = "load_index" /\ ret.status = "ok") =>
        \A n \in 1..Len(Added) : Added[n].warm

\* The resolved candidates of the last call, in order, as shard models.
RECURSIVE ResolvedModels(_)
ResolvedModels(i) ==
    IF i > Len(ret.paths) THEN <<>>
    ELSE IF get_index_path(ret.paths[i]) = NoPath THEN ResolvedModels(i + 1)
    ELSE <<[index_path |-> get_index_path(ret.paths[i]),
            warm |-> ret.outcome[i] = "ok"]>> \o ResolvedModels(i + 1)

\* C6 amended: after load_index returns, the loaded-shard list has gained
\* every resolved candidate, in order, also those whose warm-up query raised.
C6_ResolvedShardsLoaded ==
    (ret.op = "load_index" /\ ret.status = "ok") =>
        shard_models = ret.before \o ResolvedModels(1)

\* A load of two resolved candidates, the first of which failed to warm up.
C6_Witness ==
    /\ ret.op = "load_index" /\ ret.status = "ok"
    /\ Len(Added) = 2
    /\ ret.outcome[1] = "warmup_raises"
    /\ ~Added[1].warm /\ Added[2].warm

----------------------------------------------------------------------------
(* Properties of ask *)

\* The initial search of the last ask call returned (it did not raise).
FirstSearchReturned == ret.op = "ask" /\ ret.status \notin {"RuntimeError", "ProviderError"}

\* C8: when the initial search returns nothing, ask returns the fixed
\* answer with no sources and no results, and calls neither the probe nor
\* the generation request.
C8_EmptySearchNoGeneration ==
    (FirstSearchReturned /\ ret.first = <<>>) =>
        /\ ret.status = "ok"
        /\ ret.answer = NoInformation
        /\ ret.sources = <<>>
        /\ ret.value = <<>>
        /\ ret.calls = <<>>

\* An ask on a loaded system with two shards whose providers found nothing.
C8_Witness ==
    /\ FirstSearchReturned /\ ret.first = <<>>
    /\ index_loaded /\ Len(shard_models) = 2
    /\ ret.k > 0
    /\ ret.answer = NoInformation

C10_UnreachableFails ==
    (/\ FirstSearchReturned /\ ret.first # <<>>
     /\ (ret.probe = "unreachable" \/ ret.gen = "unreachable"))
    => ret.status = "ConnectionError"

\* The hits that survive compression in the last ask call: the compressed
\* ones, or those of the search when compression is off or left nothing.
SurvivingHits ==
    IF ret.comp.mode = "off" \/ ret.compressed = <<>> THEN ret.first ELSE ret.compressed

\* The generation request of the last ask call failed otherwise than by a
\* missing connection, after a successful probe.
GenerationFailed ==
    /\ FirstSearchReturned /\ ret.first # <<>>
    /\ ret.probe = "200"
    /\ ret.gen \in {"http_error", "malformed_json", "no_response_field"}

\* C11: when the probe succeeds and the generation request fails with an
\* error status or a malformed response, ask does not raise: it returns a
\* record whose answer is the text describing the failure and whose sources
\* and search_results are those of the surviving hits.
C11_GenerationErrorReturned ==
    GenerationFailed =>
        /\ ret.status = "ok"
        /\ ret.answer = (IF ret.gen = "no_response_field"
                         THEN FailedToGenerate ELSE ErrorGenerating)
        /\ ret.answer # Generated
        /\ ret.value = SurvivingHits
        /\ Len(ret.sources) = Len(SurvivingHits)
        /\ \A i \in 1..Len(SurvivingHits) :
               ret.sources[i].relevance_score = SurvivingHits[i].score

\* An ask over two hits whose generation request got an error status.
C11_Witness ==
    /\ GenerationFailed /\ ret.gen = "http_error"
    /\ Len(ret.first) = 2
    /\ ret.calls = <<"probe", "generate">>
    /\ ret.answer = ErrorGenerating

\* C12: in every record ask returns, sources is as long as search_results
\* and sources[i] carries the title, the URL and the score of
\* search_results[i], with or without compression and second search.
C12_SourcesMatchResults ==
    (ret.op = "ask" /\ ret.status = "ok") =>
        /\ Len(ret.sources) = Len(ret.value)
        /\ \A i \in 1..Len(ret.value) :
               /\ ret.sources[i].title = ret.value[i].title
               /\ ret.sources[i].url = ret.value[i].source_url
               /\ ret.sources[i].relevance_score = ret.value[i].score

\* An answered ask whose compressor kept only the second of two hits that
\* come from different shards.
C12_Witness ==
    /\ ret.op = "ask" /\ ret.status = "ok"
    /\ ret.comp.mode = "filter" /\ ret.comp.keep = {2}
    /\ Len(ret.first) = 2 /\ Len(ret.value) = 1
    /\ ret.first[1].title # ret.first[2].title
    /\ ret.sources[1].title = ret.first[2].title

\* An answered ask whose two hits come from different shards, after the
\* compressor had dropped both.
C12_WitnessSecondSearch ==
    /\ ret.op = "ask" /\ ret.status = "ok" /\ ret.nsearch = 2
    /\ Len(ret.value) = 2
    /\ ret.value[1].title # ret.value[2].title

----------------------------------------------------------------------------
(* Properties of chunk_document *)

\* The last call was chunk_document and it returned.
Chunked == ret.op = "chunk_document" /\ ret.status = "ok"

\* C13: for a document whose text is empty or absent, chunk_document
\* returns the empty sequence and raises nothing, whatever the chunker and
\* even when the document has no id.
C13_EmptyTextNoChunks ==
    (ret.op = "chunk_document" /\ (~ret.doc.has_text \/ ret.doc.text = <<>>))
    => /\ ret.status = "ok"
       /\ ret.value = <<>>

\* A document with neither text nor id, chunked.
C13_Witness ==
    /\ ret.op = "chunk_document"
    /\ ~ret.doc.has_text /\ ~ret.doc.has_id
    /\ ret.status = "ok"

\* C14: in paragraph mode the chunk_index values of the returned chunks are
\* 0, 1, ..., n-1 in list order, however many chunks were dropped.
C14_ChunkIndexContiguous ==
    (Chunked /\ chunker.respect_paragraphs)
    => \A n \in 1..Len(ret.value) : ret.value[n].chunk_index = n - 1

\* Two chunks returned in paragraph mode, the paragraph between theirs
\* dropped as a whole.
C14_Witness ==
    /\ Chunked /\ chunker.respect_paragraphs
    /\ Len(ret.value) = 2
    /\ ret.value[1].metadata.paragraph_index = 0
    /\ ret.value[2].metadata.paragraph_index = 2
    /\ ret.value[2].chunk_index = 1

\* C15: no returned chunk, in paragraph mode or not, has an estimated size
\* floor(len(text) / 4) below min_chunk_size.
C15_NoSmallChunk ==
    Chunked => \A n \in 1..Len(ret.value) :
                   Len(ret.value[n].text) \div 4 >= chunker.min_chunk_size

\* A chunk returned in paragraph mode after the first paragraph, too small,
\* was dropped.
C15_Witness ==
    /\ Chunked /\ chunker.respect_paragraphs
    /\ chunker.min_chunk_size = 1
    /\ Len(ret.value) = 1
    /\ ret.value[1].metadata.paragraph_index = 1
    /\ Len(split_into_paragraphs(ret.doc.text)[1]) \div 4 = 0

\* The paragraphs that the last chunk_document call gave to
\* _split_paragraph.
ParagraphsGiven ==
    IF chunker.respect_paragraphs
    THEN split_into_paragraphs(ret.doc.text) ELSE <<ret.doc.text>>

\* The paragraphs among them that are packed: larger than chunk_size.
PackedParagraphs ==
    {p \in 1..Len(ParagraphsGiven) :
        Len(ParagraphsGiven[p]) \div 4 > chunker.chunk_size}

\* The last n elements of a sequence.
LastOf(seq, n) == SubSeq(seq, Len(seq) - n + 1, Len(seq))

Min(a, b) == IF a <= b THEN a ELSE b

\* C16: in word mode with chunk_overlap = v > 0, of two consecutive chunks
\* i and i+1 that _split_paragraph returns, chunk i+1 begins with the last
\* min(v, number of words of chunk i) words of chunk i, followed by the word
\* that triggered the flush of chunk i.
C16_WordOverlap ==
    (/\ ret.op = "chunk_document" /\ ret.doc.text # <<>>
     /\ ~chunker.respect_sentences /\ chunker.chunk_overlap > 0)
    => \A p \in PackedParagraphs :
          LET paragraph == ParagraphsGiven[p]
              chunks == split_paragraph(paragraph)
          IN  \A i \in 1..(Len(chunks) - 1) :
                 LET these == split(chunks[i])
                     those == split(chunks[i + 1])
                     m == Min(chunker.chunk_overlap, Len(these))
                     flushed == packed(paragraph)[i]
                     trigger == split(paragraph)[flushed[Len(flushed)] + 1]
                 IN  /\ Len(those) > m
                     /\ SubSeq(those, 1, m) = LastOf(these, m)
                     /\ those[m + 1] = trigger

\* A paragraph packed in word mode into three chunks: the first of one
\* word, less than chunk_overlap, the second of two.
C16_Witness ==
    /\ Chunked /\ chunker.respect_paragraphs
    /\ ~chunker.respect_sentences /\ chunker.chunk_overlap = 2
    /\ PackedParagraphs = {1}
    /\ Len(ret.value) = 3
    /\ Len(split(ret.value[1].text)) = 1
    /\ Len(split(ret.value[2].text)) = 2

\* The last call chunked, in paragraph mode, a document with an id whose
\* paragraphs all fit in chunk_size.
SmallParagraphsChunked ==
    /\ ret.op = "chunk_document" /\ chunker.respect_paragraphs
    /\ ret.doc.has_id /\ ret.doc.text # <<>>
    /\ \A p \in 1..Len(ParagraphsGiven) :
           Len(ParagraphsGiven[p]) \div 4 <= chunker.chunk_size

\* One chunk per paragraph, the i-th with the id '{id}_chunk_{i}_0'.
OneChunkPerParagraph ==
    /\ ret.status = "ok"
    /\ Len(ret.value) = Len(ParagraphsGiven)
    /\ \A n \in 1..Len(ret.value) :
           /\ ret.value[n].chunk_id = <<DocId, "chunk", n - 1, 0>>
           /\ ret.value[n].text = ParagraphsGiven[n]

\* C18 as stated: in paragraph mode a document of n non-empty paragraphs,
\* each of estimated size at most chunk_size, gives exactly n chunks, the
\* i-th with the id '{id}_chunk_{i}_0'.
C18_OneChunkPerParagraph == SmallParagraphsChunked => OneChunkPerParagraph

\* C18, amended: the same when every paragraph also has an estimated size
\* of at least min_chunk_size.
C18_OneChunkPerKeptParagraph ==
    (/\ SmallParagraphsChunked
     /\ \A p \in 1..Len(ParagraphsGiven) :
            Len(ParagraphsGiven[p]) \div 4 >= chunker.min_chunk_size)
    => OneChunkPerParagraph

\* A document of two paragraphs, neither below a min_chunk_size of 1,
\* chunked into 'd1_chunk_0_0' and 'd1_chunk_1_0'.
C18_Witness ==
    /\ SmallParagraphsChunked
    /\ chunker.min_chunk_size = 1
    /\ Len(ParagraphsGiven) = 2
    /\ \A p \in 1..2 : Len(ParagraphsGiven[p]) \div 4 >= 1
    /\ Len(ret.value) = 2
    /\ ret.value[2].chunk_id = <<DocId, "chunk", 1, 0>>

\* C19 as stated: every chunk that _split_paragraph returns has an
\* estimated size floor(len(text) / 4) of at most chunk_size, in sentence
\* and in word mode, with and without overlap.
C19_ChunkWithinBudget ==
    (ret.op = "chunk_document" /\ ret.doc.text # <<>>)
    => \A p \in 1..Len(ParagraphsGiven) :
          LET chunks == split_paragraph(ParagraphsGiven[p])
          IN  \A c \in 1..Len(chunks) : Len(chunks[c]) \div 4 <= chunker.chunk_size

\* The size the packer counts for a flushed buffer of the paragraph: the
\* sum, over its units, of floor(len / 4) of the sentence, or of the word
\* and one space.
CountedSize(paragraph, buffer) ==
    LET units == IF chunker.respect_sentences
                 THEN split_into_sentences(paragraph) ELSE split(paragraph)
        size(n) == IF chunker.respect_sentences
                   THEN Len(units[buffer[n]]) \div 4
                   ELSE (Len(units[buffer[n]]) + 1) \div 4
        total[n \in 0..Len(buffer)] == IF n = 0 THEN 0 ELSE total[n - 1] + size(n)
    IN  total[Len(buffer)]

\* C19, amended: a paragraph that is returned whole has an estimated size
\* of at most chunk_size; of a paragraph that is packed without overlap,
\* every chunk of two or more units has a counted size of at most
\* chunk_size.  (A chunk of one unit, a chunk that starts with an overlap,
\* and the estimate of the joined text can exceed chunk_size.)
C19_CountedSizeWithinBudget ==
    (ret.op = "chunk_document" /\ ret.doc.text # <<>>)
    => \A p \in 1..Len(ParagraphsGiven) :
          LET paragraph == ParagraphsGiven[p]
              chunks == split_paragraph(paragraph)
          IN  IF p \notin PackedParagraphs
              THEN Len(chunks) = 1 /\ Len(chunks[1]) \div 4 <= chunker.chunk_size
              ELSE chunker.chunk_overlap = 0 =>
                      /\ Len(chunks) = Len(packed(paragraph))
                      /\ \A c \in 1..Len(chunks) :
                             Len(packed(paragraph)[c]) >= 2 =>
                                 CountedSize(paragraph, packed(paragraph)[c])
                                     <= chunker.chunk_size

\* A paragraph packed without overlap into a chunk of two units and a
\* chunk of one.
C19_Witness ==
    /\ ret.op = "chunk_document" /\ ret.doc.text # <<>>
    /\ chunker.chunk_overlap = 0
    /\ PackedParagraphs = {1}
    /\ Len(packed(ParagraphsGiven[1])) = 2
    /\ Len(packed(ParagraphsGiven[1])[1]) = 2
    /\ CountedSize(ParagraphsGiven[1], packed(ParagraphsGiven[1])[1]) = chunker.chunk_size

----------------------------------------------------------------------------
(* Properties of _discover_indexes *)

\* C20: discovery raises for no state of the disk: when the base location
\* is missing it returns the empty list, and when it exists every entry
\* that is not a directory is skipped and a list is returned.
C20_DiscoveryNeverRaises ==
    ret.op = "discover_indexes" =>
        /\ ret.status = "ok"
        /\ ~exists(join(<<Root>>, ret.paths[1])) => ret.value = <<>>
        /\ \A i \in 1..Len(ret.value) : isdir(ret.value[i])

----------------------------------------------------------------------------
(* Properties of _get_index_path *)

\* The storage location of the path the last _get_index_path call was
\* given: the storage root and the last component of the path.
StorageLocation == <<Root, ret.paths[1][Len(ret.paths[1])]>>

OnDisk(p) == p \in fs \cup files

\* C21: _get_index_path returns the storage location of the given path
\* when that location exists, also when the given path exists too;
\* otherwise the given path when it exists; otherwise none.
C21_StorageLocationFirst ==
    ret.op = "get_index_path" =>
        /\ OnDisk(StorageLocation) => ret.value = StorageLocation
        /\ (~OnDisk(StorageLocation) /\ OnDisk(ret.paths[1])) => ret.value = ret.paths[1]
        /\ (~OnDisk(StorageLocation) /\ ~OnDisk(ret.paths[1])) => ret.value = NoPath

\* A path resolved while it and its storage location both exist.
C21_Witness ==
    /\ ret.op = "get_index_path"
    /\ OnDisk(StorageLocation) /\ OnDisk(ret.paths[1])
    /\ ret.paths[1] # StorageLocation
    /\ ret.value = StorageLocation

----------------------------------------------------------------------------
(* Properties of _search_single_index *)

\* The index under which the metadata of hit i of the last
\* _search_single_index call was looked up: the rank of the hit when it is
\* structured and has one, its 0-based position otherwise.
LookedUp(i) ==
    IF ret.raw[i].kind = "dict" /\ ret.raw[i].has_rank THEN ret.raw[i].rank ELSE i - 1

\* Hit i of the last call has no entry in the index's metadata.
LacksMetadata(i) == ~ret.meta.exists \/ LookedUp(i) \notin ret.meta.keys

\* C22 as stated: a hit for which the index's metadata has no entry, or
\* whose index has no metadata file, is returned with title, source URL and
\* chunk id equal to the empty string and with empty custom metadata.
C22_EmptyFallback ==
    ret.op = "search_single_index" =>
        /\ ret.status = "ok"
        /\ Len(ret.value) = Len(ret.raw)
        /\ \A i \in 1..Len(ret.raw) :
               LacksMetadata(i) =>
                   /\ ret.value[i].title = <<>>
                   /\ ret.value[i].source_url = <<>>
                   /\ ret.value[i].chunk_id = <<>>
                   /\ ret.value[i].metadata = <<>>

\* C22, amended: such a hit is returned with title and source URL equal to
\* the empty string, with empty custom metadata, and with the chunk id
\* str(index it was looked up under).
C22_FallbackWithIndexAsChunkId ==
    ret.op = "search_single_index" =>
        /\ ret.status = "ok"
        /\ Len(ret.value) = Len(ret.raw)
        /\ \A i \in 1..Len(ret.raw) :
               LacksMetadata(i) =>
                   /\ ret.value[i].title = <<>>
                   /\ ret.value[i].source_url = <<>>
                   /\ ret.value[i].chunk_id = <<"str", LookedUp(i)>>
                   /\ ret.value[i].metadata = <<>>
                   /\ ret.value[i].text = ret.raw[i].text

\* Two hits formatted for an index whose metadata file has an entry for
\* the first and none for the second.
C22_Witness ==
    /\ ret.op = "search_single_index"
    /\ ret.meta.exists
    /\ Len(ret.value) = 2
    /\ ~LacksMetadata(1) /\ LacksMetadata(2)
    /\ ret.value[1].title # <<>>
    /\ ret.value[2].title = <<>>

\* The chunk of the index whose text hit i of the last call carries.
Retrieved(i) == CHOOSE p \in 0..(MaxChunks - 1) :
                    chunks_metadata(ret.paths[1], p).text = ret.value[i].text

\* C28: for an index built by build_index, every hit of the per-shard
\* search has the title, the source URL and the chunk id persisted for the
\* chunk whose text it carries, whatever its position or rank in the
\* provider's list.
C28_MetadataOfRetrievedChunk ==
    (ret.op = "search_single_index" /\ ret.meta = BuiltMetadata) =>
        \A i \in 1..Len(ret.value) :
            /\ ret.value[i].title = chunks_metadata(ret.paths[1], Retrieved(i)).title
            /\ ret.value[i].source_url = chunks_metadata(ret.paths[1], Retrieved(i)).source_url
            /\ ret.value[i].chunk_id = chunks_metadata(ret.paths[1], Retrieved(i)).chunk_id

----------------------------------------------------------------------------
(* Properties of _split_paragraph *)

\* The last unit of a buffer (the position of the unit in the paragraph).
LastUnit(buffer) == buffer[Len(buffer)]

\* C23: in sentence mode, the buffer after a flush starts with the last 2
\* sentences of the flushed buffer (all of it when it holds fewer than 2)
\* followed by the sentence that triggered the flush, for every
\* chunk_overlap > 0; with chunk_overlap = 0 it starts with the triggering
\* sentence.
C23_SentenceOverlap ==
    (ret.op = "chunk_document" /\ ret.doc.text # <<>> /\ chunker.respect_sentences)
    => \A p \in PackedParagraphs :
          LET buffers == packed(ParagraphsGiven[p])
          IN  \A c \in 1..(Len(buffers) - 1) :
                 LET flushed == buffers[c]
                     next == buffers[c + 1]
                     m == IF chunker.chunk_overlap = 0 THEN 0 ELSE Min(2, Len(flushed))
                 IN  /\ Len(next) > m
                     /\ SubSeq(next, 1, m) = LastOf(flushed, m)
                     /\ next[m + 1] = LastUnit(flushed) + 1

\* A paragraph packed in sentence mode with chunk_overlap = 1: a buffer of
\* three sentences is flushed, and the next one starts with its last two
\* and the fourth.
C23_Witness ==
    /\ ret.op = "chunk_document" /\ ret.doc.text # <<>>
    /\ chunker.respect_sentences /\ chunker.chunk_overlap = 1
    /\ PackedParagraphs = {1}
    /\ Len(packed(ParagraphsGiven[1])) = 2
    /\ packed(ParagraphsGiven[1])[1] = <<1, 2, 3>>
    /\ packed(ParagraphsGiven[1])[2] = <<2, 3, 4>>

\* The units of paragraph p of the last chunk_document call.
UnitsGiven(p) ==
    IF chunker.respect_sentences
    THEN split_into_sentences(ParagraphsGiven[p]) ELSE split(ParagraphsGiven[p])

\* The text is units a to b of paragraph p, joined by spaces.
IsRun(text, p, a, b) ==
    text = space_join(SubSeq(UnitsGiven(p), a, b))

\* C24: in paragraph mode every chunk is built from the units of its own
\* paragraph only: it is that paragraph as a whole, or a run of its units,
\* and the first chunk of a paragraph starts with the paragraph's first
\* unit.
C24_ChunksWithinParagraph ==
    (Chunked /\ chunker.respect_paragraphs)
    => \A n \in 1..Len(ret.value) :
          LET p == ret.value[n].metadata.paragraph_index + 1
              first == ret.value[n].metadata.chunk_in_paragraph = 0
          IN  /\ p \in 1..Len(ParagraphsGiven)
              /\ IF p \notin PackedParagraphs
                 THEN ret.value[n].text = ParagraphsGiven[p] /\ first
                 ELSE \E a \in 1..Len(UnitsGiven(p)) : \E b \in a..Len(UnitsGiven(p)) :
                         /\ IsRun(ret.value[n].text, p, a, b)
                         /\ first => a = 1

\* Two paragraphs chunked with overlap: the first is packed into two
\* chunks, and the chunk of the second starts with a sentence that is not
\* in the first.
C24_Witness ==
    /\ Chunked /\ chunker.respect_paragraphs /\ chunker.chunk_overlap > 0
    /\ Len(ParagraphsGiven) = 2
    /\ 1 \in PackedParagraphs
    /\ Len(ret.value) = 3
    /\ ret.value[2].metadata.paragraph_index = 0
    /\ ret.value[3].metadata.paragraph_index = 1
    /\ UnitsGiven(1) = <<<<"A", "a", "a", ".">>, <<"A", "a", "a", ".">>>>
    /\ UnitsGiven(2)[1] = <<"A", ".">>

\* C25: in every list chunk_document returns, also when respect_paragraphs
\* is false, the chunk at list position i has chunk_index i, even when
\* earlier chunks were dropped for being under min_chunk_size.
C25_ChunkIndexIsPosition ==
    Chunked => \A n \in 1..Len(ret.value) : ret.value[n].chunk_index = n - 1

\* C26: every call of search or ask, successful or failing, leaves the
\* loaded-shard list, the configured index paths and the loaded flag as
\* they were.
C26_QueriesKeepShards ==
    [][ret'.op \in {"search", "ask"}
          => /\ shard_models' = shard_models
             /\ index_paths' = index_paths
             /\ index_loaded' = index_loaded]_vars

\* A search in which one of two loaded shards failed has returned.
C26_Witness ==
    /\ ret.op = "search"
    /\ ret.status # "ok"
    /\ ret.failed # {}
    /\ Len(shard_models) = 2
    /\ index_loaded

\* C27: after any sequence of load_index calls, a repeated call and a call
\* that failed part-way included, every resolved index path occurs at most
\* once in the loaded-shard list.
C27_ShardPathsDistinct ==
    \A s, t \in 1..Len(shard_models) :
        shard_models[s].index_path = shard_models[t].index_path => s = t

----------------------------------------------------------------------------
(* Properties of _split_paragraph: coverage *)

\* The positions of the units a buffer holds.
UnitsIn(buffer) == {buffer[j] : j \in 1..Len(buffer)}

\* C29: the chunks _split_paragraph returns, before the min_chunk_size
\* filter, cover the paragraph: each chunk is a contiguous run of the
\* paragraph's units in order, every unit is in at least one chunk, the
\* first chunk starts at the first unit and the last chunk ends at the last
\* unit.  A paragraph within the budget is returned whole.
C29_ChunksCoverParagraph ==
    (ret.op = "chunk_document" /\ ret.doc.text # <<>>)
    => \A p \in 1..Len(ParagraphsGiven) :
          LET paragraph == ParagraphsGiven[p]
              units == UnitsGiven(p)
              buffers == packed(paragraph)
              chunks == split_paragraph(paragraph)
          IN  IF p \notin PackedParagraphs
              THEN chunks = <<paragraph>>
              ELSE /\ Len(chunks) = Len(buffers)
                   /\ \A c \in 1..Len(buffers) :
                         /\ buffers[c] # <<>>
                         /\ \A j \in 1..(Len(buffers[c]) - 1) :
                               buffers[c][j + 1] = buffers[c][j] + 1
                         /\ UnitsIn(buffers[c]) \subseteq 1..Len(units)
                         /\ chunks[c] = space_join(SubSeq(units, buffers[c][1],
                                                          LastUnit(buffers[c])))
                   /\ \A u \in 1..Len(units) :
                         \E c \in 1..Len(buffers) : u \in UnitsIn(buffers[c])
                   /\ units # <<>>
                      => /\ buffers # <<>>
                         /\ buffers[1][1] = 1
                         /\ LastUnit(buffers[Len(buffers)]) = Len(units)

\* A paragraph of four words was packed with an overlap into three chunks.
C29_Witness ==
    /\ ret.op = "chunk_document"
    /\ ret.doc.text # <<>>
    /\ ~chunker.respect_sentences
    /\ chunker.chunk_overlap = 1
    /\ 1 \in PackedParagraphs
    /\ Len(UnitsGiven(1)) = 4
    /\ Len(packed(ParagraphsGiven[1])) = 3

----------------------------------------------------------------------------
(* Properties of _discover_indexes: the candidates *)

\* The base location the last _discover_indexes call looked in.
BaseLocation == join(<<Root>>, ret.paths[1])

\* The directories directly inside the base location.
Subdirectories == {d \in fs : Len(d) = 3 /\ <<d[1], d[2]>> = BaseLocation}

\* No sentinel or metadata file is in the directory.
Unmarked(d) == \A s \in SentinelNames : join(d, <<s>>) \notin files

\* The call returned every directory directly inside the base location,
\* each once, and nothing else.
SubdirectoriesReturned ==
    /\ {ret.value[i] : i \in 1..Len(ret.value)} = Subdirectories
    /\ Len(ret.value) = Cardinality(Subdirectories)

\* For a base location that is a directory the call returns, and returns
\* every directory directly inside it, marked or not.
DirectoryBaseAllReturned ==
    (ret.op = "discover_indexes" /\ isdir(BaseLocation))
    => /\ ret.status = "ok"
       /\ SubdirectoriesReturned

\* An unmarked and a marked directory were both returned.
UnmarkedReturned ==
    /\ ret.op = "discover_indexes"
    /\ Len(ret.value) = 2
    /\ Unmarked(ret.value[1])
    /\ ~Unmarked(ret.value[2])

\* C30: when the base location exists, _discover_indexes returns exactly
\* its immediate subdirectories for which one of the four indicators holds;
\* the fourth holds for every existing subdirectory, so that a subdirectory
\* with none of the sentinel or metadata files is returned too.
C30_EverySubdirectoryReturned ==
    (ret.op = "discover_indexes" /\ exists(BaseLocation))
    => /\ ret.status = "ok"
       /\ SubdirectoriesReturned

====
